---- MODULE Spec2Model ----
(***************************************************************************)
(* Model of pytorch_translate/dual_learning/dual_learning_criterion.py:     *)
(* UnsupervisedCriterion.forward (one training step of the dual-learning   *)
(* criterion, with the decoder, the n-gram scorer, the weighted criterion  *)
(* and the optimizers as external capabilities whose results are chosen    *)
(* nondeterministically) and the static aggregate_logging_outputs.         *)
(*                                                                         *)
(* Real numbers are exact rationals <<n, d>> with d > 0, in lowest terms.  *)
(* A value divided by math.log(2) is kept as the rational before that      *)
(* division (every loss the aggregation reports carries the same factor).  *)
(***************************************************************************)
EXTENDS Integers, Sequences, FiniteSets, TLC

VARIABLES
    args,              \* the parsed options handed to __init__
    alpha,             \* self.alpha
    remove_eos_at_src, \* self.remove_eos_at_src
    sample,            \* the input batch: [id, src_tokens (padded rows)]
    pc,                \* position inside forward()
    err,               \* the exception that ended the step, "" when none
    nbest,             \* nbest_translations: <<[id, src, hypo]>> of the forward decode
    i,                 \* index of the example the reward loop is at
    original_src,      \* loop local
    bt_src,            \* loop local
    recon,             \* reconstructed_source: <<[id, src, hypo]>> of the backward decode
    scorer,            \* the (ref, hyp) pairs added to the live bleu.Scorer
    bleu_score,        \* what scorer.score(order=4) returned for the example
    total_reward,      \* loop local
    forward_samples,
    backward_samples,
    mode,              \* train/eval mode of the two models
    gen_calls,         \* every translator.generate call made
    crit_calls,        \* every self.task.criterion call made
    opt_calls,         \* every optimizer.backward call made
    agg,               \* agg_loss, agg_sample_size, agg_logging_output
    result,            \* what forward() returned
    events,            \* the order of the loop's steps, per example
    logging_outputs,   \* argument of aggregate_logging_outputs
    agg_pc,            \* position of aggregate_logging_outputs
    agg_err,           \* the exception it raised, "" when none
    totals,            \* loss_sum, ntokens, nsentences, sample_size as computed
    agg_output         \* the mapping it returned

vars == <<args, alpha, remove_eos_at_src, sample, pc, err, nbest, i,
          original_src, bt_src, recon, scorer, bleu_score, total_reward,
          forward_samples, backward_samples, mode, gen_calls, crit_calls, opt_calls, agg,
          result, events, logging_outputs, agg_pc, agg_err, totals,
          agg_output>>

fwdVars == <<args, alpha, remove_eos_at_src, sample, pc, err, nbest, i,
             original_src, bt_src, recon, scorer, bleu_score, total_reward,
             forward_samples, backward_samples, mode, gen_calls, crit_calls,
             opt_calls, agg, result, events>>

aggVars == <<logging_outputs, agg_pc, agg_err, totals, agg_output>>

----------------------------------------------------------------------------
(* Bounds of the model *)

MaxBatch == 2
MaxSrcLen == 1
MaxHypLen == 1
MaxWorkers == 2
MaxVal == 2

----------------------------------------------------------------------------
(* Vocabulary indices: tgt_dict.pad(), tgt_dict.eos() (the two dictionaries
   agree on them) and an ordinary token *)

PAD == 1
EOS == 2
WORD == 4

----------------------------------------------------------------------------
(* Exact rational arithmetic *)

RECURSIVE GCD(_, _)
GCD(a, b) == IF b = 0 THEN a ELSE GCD(b, a % b)

Abs(x) == IF x < 0 THEN -x ELSE x

RNorm(n, d) ==
    LET g == GCD(Abs(n), Abs(d))
        s == IF d < 0 THEN -1 ELSE 1
    IN  <<(s * n) \div g, (s * d) \div g>>

RInt(n) == <<n, 1>>
RAdd(x, y) == RNorm(x[1] * y[2] + y[1] * x[2], x[2] * y[2])
RSub(x, y) == RNorm(x[1] * y[2] - y[1] * x[2], x[2] * y[2])
RMul(x, y) == RNorm(x[1] * y[1], x[2] * y[2])
RLe(x, y) == x[1] * y[2] <= y[1] * x[2]

\* Python int(x): truncation toward zero
PyInt(x) ==
    IF x[1] >= 0 THEN x[1] \div x[2] ELSE -((-x[1]) \div x[2])

\* Python round(x): nearest integer, ties to the even one
PyRound(x) ==
    LET q == x[1] \div x[2]
        r == x[1] % x[2]
    IN  IF 2 * r < x[2] THEN q
        ELSE IF 2 * r > x[2] THEN q + 1
        ELSE IF q % 2 = 0 THEN q ELSE q + 1

----------------------------------------------------------------------------
(* Sequences *)

Last(s) == s[Len(s)]
ButLast(s) == SubSeq(s, 1, Len(s) - 1)

RECURSIVE Repeat(_, _)
Repeat(x, n) == IF n <= 0 THEN <<>> ELSE <<x>> \o Repeat(x, n - 1)

RECURSIVE MaxLenOf(_)
MaxLenOf(ss) ==
    IF ss = <<>> THEN 0
    ELSE LET m == MaxLenOf(Tail(ss))
         IN  IF Len(Head(ss)) > m THEN Len(Head(ss)) ELSE m

\* Sentences of lo..hi tokens: words, with eos (if any) only in the last place
Sentences(lo, hi) ==
    { Repeat(WORD, n) : n \in lo..hi }
    \cup { Repeat(WORD, n - 1) \o <<EOS>> : n \in (lo..hi) \ {0} }

----------------------------------------------------------------------------
(* Input domains *)

\* reward_alpha: 0, 1/2, 1 and, outside [0,1], 3/2
AlphaVals == { <<0, 1>>, <<1, 2>>, <<1, 1>>, <<3, 2>> }

\* (max_len_a, max_len_b): 0 and 2, 3/2 and 0, 1/2 and 1/2, 1 and -5/2
MaxLenVals ==
    { <<RInt(0), RInt(2)>>, <<RNorm(3, 2), RInt(0)>>,
      <<RNorm(1, 2), RNorm(1, 2)>>, <<RInt(1), RNorm(-5, 2)>> }

ArgsOf(alphas, flags, lens) ==
    { [reward_alpha |-> a, append_eos_to_source |-> e,
       max_len_a |-> ml[1], max_len_b |-> ml[2]]
      : a \in alphas, e \in flags, ml \in lens }

\* the options of Spec: every reward_alpha and flag, one length setting
ArgsSet == ArgsOf(AlphaVals, BOOLEAN, { <<RNorm(3, 2), RInt(0)>> })

\* the options of SpecLen: every length setting, one reward_alpha
ArgsSetLen == ArgsOf({ <<1, 2>> }, BOOLEAN, MaxLenVals)

\* the losses self.task.criterion may return
LossVals == {1, 2}

\* what scorer.score(order=4) may return
ScoreVals == {0, 100}

\* what a decoder may return as its best hypothesis
Hyps == Sentences(1, MaxHypLen)

\* identifiers of the examples of a batch of n: dataset indices, longest
\* sentence first as the batch iterator orders them, so not in index order
IdSeqs(n) == { [k \in 1..n |-> n - k] }

----------------------------------------------------------------------------
(* External capabilities *)

\* data_utils.collate_tokens: rows padded on the left to the longest
PadLeft(row, w, pad_idx) == Repeat(pad_idx, w - Len(row)) \o row

\* WeightedLanguagePairDataset.collate, as far as this criterion reads it
Collate(samples, pad_idx) ==
    LET srcs == [k \in 1..Len(samples) |-> samples[k].source]
        w == MaxLenOf(srcs)
    IN  [id |-> [k \in 1..Len(samples) |-> samples[k].id],
         src_tokens |-> [k \in 1..Len(samples) |-> PadLeft(srcs[k], w, pad_idx)],
         samples |-> samples]

\* utils.strip_pad: the tokens that are not the pad index
StripPad(row, pad_idx) == SelectSeq(row, LAMBDA t : t # pad_idx)

RECURSIVE SumLen(_)
SumLen(ss) == IF ss = <<>> THEN 0 ELSE Len(Head(ss).target) + SumLen(Tail(ss))

\* self.task.criterion(model, batch): the loss it returns is any of
\* LossVals; sample_size is the number of target tokens of the batch
CriterionOut(model, batch, v) ==
    [loss |-> [by |-> model, val |-> v],
     sample_size |-> SumLen(batch.samples),
     logging_output |->
        [loss |-> v, ntokens |-> SumLen(batch.samples),
         nsentences |-> Len(batch.samples),
         sample_size |-> SumLen(batch.samples)]]

----------------------------------------------------------------------------
(* _generate_translation *)

MaxOutLen_Rounded(srclen) ==
    PyRound(RAdd(RMul(args.max_len_a, RInt(srclen)), args.max_len_b))

\* maxlen handed to translator.generate
MaxOutLen(srclen) ==
    PyInt(RAdd(RMul(args.max_len_a, RInt(srclen)), args.max_len_b))

\* srclen = input["src_tokens"].size(1)
SrcLen(batch) == Len(batch.src_tokens[1])

GenCall(model, batch) ==
    [model |-> model, src_tokens |-> batch.src_tokens,
     srclen |-> SrcLen(batch), maxlen |-> MaxOutLen(SrcLen(batch))]

\* what the generator yields, given the decoder's best hypotheses hs
Yields(batch, hs) ==
    [k \in 1..Len(batch.id) |->
        [id |-> batch.id[k],
         src |-> StripPad(batch.src_tokens[k], PAD),
         hypo |-> hs[k]]]

----------------------------------------------------------------------------
(* forward *)

lm_score == <<1, 2>>

forward_reward == lm_score

BackwardWeight == RSub(RInt(1), alpha)

BackwardReward_Unscaled(score) == RInt(score)

BackwardReward(score) == RNorm(score, 100)

TotalReward(score) ==
    RAdd(RMul(alpha, forward_reward),
         RMul(RSub(RInt(1), alpha), BackwardReward(score)))

\* original_src with EOS added when it is not its last token
WithEos(src) == IF Last(src) # EOS THEN src \o <<EOS>> ELSE src

\* bt_src: the best hypothesis, its last token removed when remove_eos_at_src
BtSrc(hypo) == IF remove_eos_at_src THEN ButLast(hypo) ELSE hypo

NewScorer_Kept(old) == old

\* bleu.Scorer(...): the scorer an example is scored with starts empty
NewScorer(old) == <<>>

\* scorer.add for every reconstruction
RECURSIVE ScorerAddAll(_, _, _)
ScorerAddAll(sc, ref, rs) ==
    IF rs = <<>> THEN sc
    ELSE ScorerAddAll(Append(sc, <<ref, ButLast(Head(rs).hypo)>>), ref, Tail(rs))

Train_Skipped(m, model) == m

\* model.train()
Train(m, model) == [m EXCEPT ![model] = "train"]

AggZero == [loss |-> 0, sample_size |-> 0, logging_output |-> <<>>]

InitOf(argsSet) ==
    /\ args \in argsSet
    /\ alpha = args.reward_alpha
    /\ remove_eos_at_src = ~args.append_eos_to_source
    /\ \E n \in 1..MaxBatch :
         \E ids \in IdSeqs(n), srcs \in [1..n -> Sentences(0, MaxSrcLen)] :
            sample = [id |-> ids,
                      src_tokens |-> [k \in 1..n |->
                          PadLeft(srcs[k], MaxLenOf(srcs), PAD)]]
    /\ pc = "start"
    /\ err = ""
    /\ nbest = <<>>
    /\ i = 0
    /\ original_src = <<>>
    /\ bt_src = <<>>
    /\ recon = <<>>
    /\ scorer = <<>>
    /\ bleu_score = 0
    /\ total_reward = <<0, 1>>
    /\ forward_samples = <<>>
    /\ backward_samples = <<>>
    /\ mode = [forward_model |-> "train", backward_model |-> "train"]
    /\ gen_calls = <<>>
    /\ crit_calls = <<>>
    /\ opt_calls = <<>>
    /\ agg = AggZero
    /\ result = <<>>
    /\ events = <<>>

\* lines 85-87 and, at the loop's first step, the generator's body (28-56)
Generate ==
    /\ pc = "start"
    /\ \E hs \in [1..Len(sample.id) -> Hyps] :
         nbest' = Yields(sample, hs)
    /\ gen_calls' = Append(gen_calls, GenCall("forward_model", sample))
    /\ mode' = [mode EXCEPT !.forward_model = "eval"]
    /\ i' = 1
    /\ pc' = "build"
    /\ UNCHANGED <<args, alpha, remove_eos_at_src, sample, err, original_src,
                   bt_src, recon, scorer, bleu_score, total_reward,
                   forward_samples,
                   backward_samples, crit_calls, opt_calls, agg, result,
                   events>>

\* lines 99-116
BuildBackwardSample ==
    /\ pc = "build"
    /\ IF nbest[i].src = <<>>
       THEN /\ pc' = "raised"
            /\ err' = "IndexError"
            /\ events' = Append(events, <<i, "index">>)
            /\ UNCHANGED <<original_src, bt_src, backward_samples>>
       ELSE /\ original_src' = WithEos(nbest[i].src)
            /\ bt_src' = BtSrc(nbest[i].hypo)
            /\ backward_samples' = Append(backward_samples,
                 [id |-> nbest[i].id, source |-> bt_src',
                  target |-> original_src', weights |-> BackwardWeight])
            /\ pc' = "decode"
            /\ err' = err
            /\ events' = Append(events, <<i, "build">>)
    /\ UNCHANGED <<args, alpha, remove_eos_at_src, sample, nbest, i, recon,
                   scorer, bleu_score, total_reward, forward_samples, mode, gen_calls,
                   crit_calls, opt_calls, agg, result>>

\* lines 118-127 and the generator's body when line 129 first reads it
DecodeBackward ==
    /\ pc = "decode"
    /\ events' = Append(events, <<i, "decode">>)
    /\ LET batch == Collate(<<Last(backward_samples)>>, PAD)
       IN  /\ \E h \in Hyps : recon' = Yields(batch, <<h>>)
           /\ gen_calls' = Append(gen_calls, GenCall("backward_model", batch))
    /\ mode' = [mode EXCEPT !.backward_model = "eval"]
    /\ pc' = "score"
    /\ UNCHANGED <<args, alpha, remove_eos_at_src, sample, err, nbest, i,
                   original_src, bt_src, scorer, bleu_score, total_reward,
                   forward_samples, backward_samples, crit_calls, opt_calls,
                   agg, result>>

\* lines 128-136
Score ==
    /\ pc = "score"
    /\ events' = Append(events, <<i, "score">>)
    /\ scorer' = ScorerAddAll(NewScorer(scorer), original_src, recon)
    /\ recon' = <<>>
    /\ \E s \in ScoreVals : bleu_score' = s /\ total_reward' = TotalReward(s)
    /\ pc' = "assert"
    /\ UNCHANGED <<args, alpha, remove_eos_at_src, sample, err, nbest, i,
                   original_src, bt_src, forward_samples,
                   backward_samples, mode, gen_calls, crit_calls, opt_calls,
                   agg, result>>

\* lines 138-150, and the loop's next step
AssertAndAppend ==
    /\ pc = "assert"
    /\ events' = Append(events, <<i, "assert">>)
    /\ IF Last(nbest[i].hypo) # EOS
       THEN /\ pc' = "raised"
            /\ err' = "AssertionError"
            /\ UNCHANGED <<forward_samples, i>>
       ELSE /\ forward_samples' = Append(forward_samples,
                 [id |-> nbest[i].id, source |-> nbest[i].src,
                  target |-> nbest[i].hypo, weights |-> total_reward])
            /\ err' = err
            /\ IF i < Len(nbest)
               THEN i' = i + 1 /\ pc' = "build"
               ELSE i' = i /\ pc' = "forward_criterion"
    /\ UNCHANGED <<args, alpha, remove_eos_at_src, sample, nbest,
                   original_src, bt_src, recon, scorer, bleu_score, total_reward,
                   backward_samples, mode, gen_calls, crit_calls, opt_calls,
                   agg, result>>

\* lines 154-171
ForwardCriterion ==
    /\ pc = "forward_criterion"
    /\ mode' = Train(mode, "forward_model")
    /\ \E v \in LossVals :
         LET batch == Collate(forward_samples, PAD)
             out == CriterionOut("forward_model", batch, v)
         IN  /\ crit_calls' = Append(crit_calls,
                   [model |-> "forward_model", samples |-> batch.samples,
                    mode |-> mode'["forward_model"], out |-> out])
             /\ agg' = [loss |-> agg.loss + out.loss.val,
                        sample_size |-> agg.sample_size + out.sample_size,
                        logging_output |-> <<out.logging_output>>]
             /\ opt_calls' = Append(opt_calls,
                   [optimizer |-> "forward_optimizer", loss |-> out.loss])
    /\ pc' = "backward_criterion"
    /\ UNCHANGED <<args, alpha, remove_eos_at_src, sample, err, nbest, i,
                   original_src, bt_src, recon, scorer, bleu_score, total_reward,
                   forward_samples, backward_samples, gen_calls, result,
                   events>>

\* lines 173-189
BackwardCriterion ==
    /\ pc = "backward_criterion"
    /\ mode' = Train(mode, "backward_model")
    /\ \E v \in LossVals :
         LET batch == Collate(backward_samples, PAD)
             out == CriterionOut("backward_model", batch, v)
         IN  /\ crit_calls' = Append(crit_calls,
                   [model |-> "backward_model", samples |-> batch.samples,
                    mode |-> mode'["backward_model"], out |-> out])
             /\ agg' = [loss |-> agg.loss + out.loss.val,
                        sample_size |-> agg.sample_size + out.sample_size,
                        logging_output |->
                            Append(agg.logging_output, out.logging_output)]
             /\ opt_calls' = Append(opt_calls,
                   [optimizer |-> "backward_optimizer", loss |-> out.loss])
             /\ result' = <<agg'.loss, agg'.sample_size,
                            [primal |-> agg'.logging_output[1],
                             dual |-> agg'.logging_output[2]]>>
    /\ pc' = "done"
    /\ UNCHANGED <<args, alpha, remove_eos_at_src, sample, err, nbest, i,
                   original_src, bt_src, recon, scorer, bleu_score, total_reward,
                   forward_samples, backward_samples, gen_calls, events>>

----------------------------------------------------------------------------
(* aggregate_logging_outputs *)

Keys == {"loss", "ntokens", "nsentences", "sample_size"}

\* A logging record is [nested, m]: m maps its keys to numbers (a flat
\* record) or, when nested, "primal" and "dual" to flat mappings.
Flat(m) == [nested |-> FALSE, m |-> m]
Nested(p, d) == [nested |-> TRUE, m |-> [primal |-> p, dual |-> d]]

Without(m, k) == [x \in (DOMAIN m) \ {k} |-> m[x]]

\* a mapping with every key, and the same with one key left out
WithGaps(full) == full \cup { Without(m, k) : m \in full, k \in Keys }

FlatMaps ==
    WithGaps({ [loss |-> l, ntokens |-> t, nsentences |-> 1, sample_size |-> z]
               : l \in LossVals, t \in 1..MaxVal, z \in 1..MaxVal })

SubMaps ==
    WithGaps({ [loss |-> 1, ntokens |-> 1, nsentences |-> 1, sample_size |-> 1] })

LogRecords ==
    { Flat(m) : m \in FlatMaps } \cup { Nested(p, d) : p \in SubMaps, d \in SubMaps }

\* sum(f[x] for x in S)
RECURSIVE SumOver(_, _)
SumOver(f, S) ==
    IF S = {} THEN 0
    ELSE LET x == CHOOSE y \in S : TRUE
         IN  f[x] + SumOver(f, S \ {x})

\* get_logging_output(key): [ok, v]; not ok when `key in log` is evaluated
\* on a number, which raises TypeError
get_logging_output(key) ==
    LET rec == logging_outputs[1]
    IN  IF key \in DOMAIN rec.m
        THEN [ok |-> TRUE, v |-> rec.m[key]]
        ELSE IF ~rec.nested /\ DOMAIN rec.m # {}
        THEN [ok |-> FALSE, v |-> 0]
        ELSE [ok |-> TRUE,
              v |-> SumOver([k \in DOMAIN rec.m |->
                                IF key \in DOMAIN rec.m[k]
                                THEN rec.m[k][key] ELSE 0],
                            DOMAIN rec.m)]

HasNll_Greater(sample_size, ntokens) == sample_size > ntokens

\* the condition of line 214
HasNll(sample_size, ntokens) == sample_size # ntokens

InitAgg ==
    /\ logging_outputs \in UNION { [1..n -> LogRecords] : n \in 1..MaxWorkers }
    /\ agg_pc = "start"
    /\ agg_err = ""
    /\ totals = <<>>
    /\ agg_output = <<>>

\* lines 204-216
Aggregate ==
    /\ agg_pc = "start"
    /\ LET loss_sum == get_logging_output("loss")
           ntokens == get_logging_output("ntokens")
           nsentences == get_logging_output("nsentences")
           sample_size == get_logging_output("sample_size")
       IN  IF ~(loss_sum.ok /\ ntokens.ok /\ nsentences.ok /\ sample_size.ok)
           THEN /\ agg_pc' = "raised"
                /\ agg_err' = "TypeError"
                /\ UNCHANGED <<totals, agg_output>>
           ELSE /\ totals' = [loss |-> loss_sum.v, ntokens |-> ntokens.v,
                              nsentences |-> nsentences.v,
                              sample_size |-> sample_size.v]
                /\ IF sample_size.v = 0
                      \/ (HasNll(sample_size.v, ntokens.v) /\ ntokens.v = 0)
                   THEN /\ agg_pc' = "raised"
                        /\ agg_err' = "ZeroDivisionError"
                        /\ UNCHANGED agg_output
                   ELSE /\ agg_pc' = "done"
                        /\ agg_err' = agg_err
                        /\ agg_output' =
                             LET base ==
                                   [loss |-> RNorm(loss_sum.v, sample_size.v),
                                    ntokens |-> RInt(ntokens.v),
                                    nsentences |-> RInt(nsentences.v),
                                    sample_size |-> RInt(sample_size.v)]
                             IN  IF HasNll(sample_size.v, ntokens.v)
                                 THEN [k \in Keys \cup {"nll_loss"} |->
                                         IF k = "nll_loss"
                                         THEN RNorm(loss_sum.v, ntokens.v)
                                         ELSE base[k]]
                                 ELSE base
    /\ UNCHANGED logging_outputs

\* forward() is not running
InitFwdIdle ==
    /\ args = CHOOSE a \in ArgsSet : TRUE
    /\ alpha = args.reward_alpha
    /\ remove_eos_at_src = ~args.append_eos_to_source
    /\ sample = <<>>
    /\ pc = "idle"
    /\ err = ""
    /\ nbest = <<>>
    /\ i = 0
    /\ original_src = <<>>
    /\ bt_src = <<>>
    /\ recon = <<>>
    /\ scorer = <<>>
    /\ bleu_score = 0
    /\ total_reward = <<0, 1>>
    /\ forward_samples = <<>>
    /\ backward_samples = <<>>
    /\ mode = [forward_model |-> "train", backward_model |-> "train"]
    /\ gen_calls = <<>>
    /\ crit_calls = <<>>
    /\ opt_calls = <<>>
    /\ agg = AggZero
    /\ result = <<>>
    /\ events = <<>>

NextAgg == Aggregate /\ UNCHANGED fwdVars

InitAggregation == InitFwdIdle /\ InitAgg

SpecAgg == InitAggregation /\ [][NextAgg]_vars

InitAggIdle ==
    /\ logging_outputs = <<>>
    /\ agg_pc = "idle"
    /\ agg_err = ""
    /\ totals = <<>>
    /\ agg_output = <<>>

Init == InitOf(ArgsSet) /\ InitAggIdle

InitLen == InitOf(ArgsSetLen) /\ InitAggIdle

Next ==
    \/ Generate /\ UNCHANGED aggVars
    \/ BuildBackwardSample /\ UNCHANGED aggVars
    \/ DecodeBackward /\ UNCHANGED aggVars
    \/ Score /\ UNCHANGED aggVars
    \/ AssertAndAppend /\ UNCHANGED aggVars
    \/ ForwardCriterion /\ UNCHANGED aggVars
    \/ BackwardCriterion /\ UNCHANGED aggVars

Spec == Init /\ [][Next]_vars

SpecLen == InitLen /\ [][Next]_vars

----------------------------------------------------------------------------
(* Properties *)

\* What a record contributes for a key when a missing key counts as 0
RecordValue(rec, key) ==
    IF rec.nested
    THEN SumOver([k \in DOMAIN rec.m |->
                    IF key \in DOMAIN rec.m[k] THEN rec.m[k][key] ELSE 0],
                 DOMAIN rec.m)
    ELSE IF key \in DOMAIN rec.m THEN rec.m[key] ELSE 0

RECURSIVE TotalOver(_, _)
TotalOver(recs, key) ==
    IF recs = <<>> THEN 0
    ELSE RecordValue(Head(recs), key) + TotalOver(Tail(recs), key)

\* C1: once aggregate_logging_outputs has returned, ntokens, nsentences and
\* sample_size are the sums of those fields over all N records, and the
\* headline loss is computed from the sum of loss over all N records.
C1_SumsOverAllRecords ==
    agg_pc = "done" =>
        /\ agg_output["ntokens"] = RInt(TotalOver(logging_outputs, "ntokens"))
        /\ agg_output["nsentences"] = RInt(TotalOver(logging_outputs, "nsentences"))
        /\ agg_output["sample_size"] = RInt(TotalOver(logging_outputs, "sample_size"))
        /\ agg_output["loss"][1] * TotalOver(logging_outputs, "sample_size")
             = TotalOver(logging_outputs, "loss") * agg_output["loss"][2]

\* the reported values (each before the division by ln 2) for totals t
ReportsLoss(t) ==
    agg_output["loss"][1] * t.sample_size = t.loss * agg_output["loss"][2]

ReportsNll(t) ==
    IF t.sample_size # t.ntokens
    THEN /\ "nll_loss" \in DOMAIN agg_output
         /\ agg_output["nll_loss"][1] * t.ntokens
              = t.loss * agg_output["nll_loss"][2]
    ELSE "nll_loss" \notin DOMAIN agg_output

\* C2 as stated: whenever the aggregated totals have sample_size != 0 the
\* call returns loss = loss_sum / sample_size / ln2, with the key nll_loss
\* (= loss_sum / ntokens / ln2) exactly when sample_size != ntokens.
C2_ReturnsForNonzeroSampleSize ==
    (agg_pc # "start" /\ totals # <<>> /\ totals.sample_size # 0) =>
        /\ agg_pc = "done"
        /\ ReportsLoss(totals)
        /\ ReportsNll(totals)

\* C2 amended: whenever the aggregated totals have sample_size != 0 and
\* ntokens != 0 the call returns loss = loss_sum / sample_size / ln2, with
\* the key nll_loss (= loss_sum / ntokens / ln2) exactly when
\* sample_size != ntokens; with sample_size != 0 and ntokens = 0 it raises
\* ZeroDivisionError while computing nll_loss and returns nothing.
C2_ReturnsForNonzeroTotals ==
    (agg_pc # "start" /\ totals # <<>> /\ totals.sample_size # 0) =>
        IF totals.ntokens # 0
        THEN /\ agg_pc = "done"
             /\ ReportsLoss(totals)
             /\ ReportsNll(totals)
        ELSE /\ agg_pc = "raised"
             /\ agg_err = "ZeroDivisionError"
             /\ agg_output = <<>>

C2_Witness ==
    /\ agg_pc = "done"
    /\ totals.sample_size # totals.ntokens
    /\ "nll_loss" \in DOMAIN agg_output
    /\ agg_output["loss"] # agg_output["nll_loss"]

\* the keys the first record (or, when nested, one of its sub-records) lacks
LacksKey(rec, key) ==
    IF rec.nested
    THEN \E k \in DOMAIN rec.m : key \notin DOMAIN rec.m[k]
    ELSE key \notin DOMAIN rec.m

\* C7: a record that lacks one of the four keys (a flat record, or a nested
\* record one or both of whose sub-records lack it) contributes 0 for that
\* key and the lookup does not raise.
C7_MissingKeyCountsZero ==
    agg_pc # "start" =>
        \A key \in Keys :
            LacksKey(logging_outputs[1], key) =>
                /\ agg_err # "TypeError"
                /\ totals # <<>>
                /\ totals[key] = RecordValue(logging_outputs[1], key)

EndsWithEos(seq) == seq # <<>> /\ Last(seq) = EOS

BadHypothesis == \E k \in 1..Len(nbest) : ~EndsWithEos(nbest[k].hypo)

\* C3: if the best forward hypothesis of some example does not end with
\* eos, the step ends in an assertion error: the criterion is never invoked,
\* no optimizer's backward is called and nothing is returned; and when
\* forward() returns, every forward sample's target ends with eos.
C3_BadHypothesisAborts ==
    /\ BadHypothesis =>
          /\ pc \notin {"forward_criterion", "backward_criterion", "done"}
          /\ crit_calls = <<>>
          /\ opt_calls = <<>>
          /\ result = <<>>
          /\ pc = "raised" => err = "AssertionError"
    /\ pc = "done" =>
          \A k \in 1..Len(forward_samples) :
              EndsWithEos(forward_samples[k].target)

InUnit(x) == RLe(RInt(0), x) /\ RLe(x, RInt(1))

\* C4: with alpha in [0,1] (the scorer's score being in [0,100]) the weight
\* alpha * 0.5 + (1 - alpha) * score / 100 computed for an example, and the
\* weight stored on every forward sample, lies in [0,1].
C4_RewardInUnitInterval ==
    InUnit(alpha) =>
        /\ \A k \in 1..Len(forward_samples) : InUnit(forward_samples[k].weights)
        /\ pc = "assert" =>
              /\ bleu_score \in 0..100
              /\ InUnit(total_reward)
              /\ 200 * alpha[2] * total_reward[1]
                    = total_reward[2]
                        * (100 * alpha[1] + 2 * bleu_score * (alpha[2] - alpha[1]))

C4_Witness ==
    /\ InUnit(alpha)
    /\ alpha = <<1, 2>>
    /\ Len(forward_samples) = 2
    /\ forward_samples[1].weights = <<1, 4>>
    /\ forward_samples[2].weights = <<3, 4>>

\* the loop has taken a step for example k
Processed(k) == \E e \in 1..Len(events) : events[e][1] = k

\* C5: for every example the loop has built a backward sample from, that
\* sample's target is the pad-stripped source followed by one eos when the
\* source does not end with eos (the empty source included), and the source
\* unchanged when it does.
C5_BackwardTargetHasOneEos ==
    \A k \in 1..Len(nbest) :
        Processed(k) =>
            /\ k <= Len(backward_samples)
            /\ backward_samples[k].target =
                  (IF EndsWithEos(nbest[k].src) THEN nbest[k].src
                   ELSE nbest[k].src \o <<EOS>>)

\* C6: when forward() has returned, the criterion was invoked once with the
\* forward model (in training mode) on the forward samples and then once
\* with the backward model (in training mode) on the backward samples; each
\* optimizer's backward was called once, with its own model's loss; and the
\* result is the sum of the two losses, the sum of the two sample sizes and
\* {primal: forward log, dual: backward log}.
C6_DelegationAndResult ==
    pc = "done" =>
        /\ Len(crit_calls) = 2
        /\ crit_calls[1].model = "forward_model"
        /\ crit_calls[1].samples = forward_samples
        /\ crit_calls[1].mode = "train"
        /\ crit_calls[2].model = "backward_model"
        /\ crit_calls[2].samples = backward_samples
        /\ crit_calls[2].mode = "train"
        /\ opt_calls =
             << [optimizer |-> "forward_optimizer", loss |-> crit_calls[1].out.loss],
                [optimizer |-> "backward_optimizer", loss |-> crit_calls[2].out.loss] >>
        /\ crit_calls[1].out.loss.by = "forward_model"
        /\ crit_calls[2].out.loss.by = "backward_model"
        /\ result[1] = crit_calls[1].out.loss.val + crit_calls[2].out.loss.val
        /\ result[2] = crit_calls[1].out.sample_size + crit_calls[2].out.sample_size
        /\ result[3] = [primal |-> crit_calls[1].out.logging_output,
                        dual |-> crit_calls[2].out.logging_output]

C6_Witness ==
    /\ pc = "done"
    /\ Len(forward_samples) = 2
    /\ crit_calls[1].out.loss.val # crit_calls[2].out.loss.val
    /\ crit_calls[1].out.sample_size # crit_calls[2].out.sample_size
    /\ result[1] = 3

MaxLenValue(len) == RAdd(RMul(args.max_len_a, RInt(len)), args.max_len_b)

\* C8 as stated: the maxlen of every decoder call is
\* round(max_len_a * source_length + max_len_b) for the (unpadded) length of
\* each source sequence of the batch it decodes.
C8_MaxLenIsRounded ==
    \A c \in 1..Len(gen_calls) :
        \A k \in 1..Len(gen_calls[c].src_tokens) :
            gen_calls[c].maxlen =
                PyRound(MaxLenValue(Len(StripPad(gen_calls[c].src_tokens[k], PAD))))

Longest(rows) ==
    MaxLenOf([k \in 1..Len(rows) |-> StripPad(rows[k], PAD)])

\* m is v with its fractional part dropped
TruncatedTo(m, v) ==
    IF RLe(RInt(0), v)
    THEN RLe(RInt(m), v) /\ ~RLe(RInt(m + 1), v)
    ELSE RLe(v, RInt(m)) /\ ~RLe(v, RInt(m - 1))

\* C8 amended: the maxlen of every decoder call is
\* int(max_len_a * srclen + max_len_b), the value truncated toward zero,
\* where srclen is the padded width of the batch's source matrix (the
\* length of its longest source), one value for the whole batch.
C8_MaxLenIsTruncatedOfWidth ==
    \A c \in 1..Len(gen_calls) :
        /\ gen_calls[c].srclen = Longest(gen_calls[c].src_tokens)
        /\ TruncatedTo(gen_calls[c].maxlen, MaxLenValue(gen_calls[c].srclen))

C8_Witness ==
    \E c \in 1..Len(gen_calls) :
        /\ \E k \in 1..Len(gen_calls[c].src_tokens) :
              Len(StripPad(gen_calls[c].src_tokens[k], PAD)) < gen_calls[c].srclen
        /\ gen_calls[c].maxlen # PyRound(MaxLenValue(gen_calls[c].srclen))
        /\ gen_calls[c].maxlen = 1

Position(ev) ==
    IF \E e \in 1..Len(events) : events[e] = ev
    THEN CHOOSE e \in 1..Len(events) : events[e] = ev
    ELSE 0

\* C9: for every example the eos assertion on its best hypothesis is
\* evaluated before the backward sample is built, before the backward
\* decode and before the scoring; so no backward sample is recorded from,
\* and the backward decoder is never invoked on, a hypothesis that does not
\* end with eos.
C9_AssertionComesFirst ==
    /\ \A k \in 1..Len(nbest) :
          \A step \in {"build", "decode", "score"} :
              Position(<<k, step>>) # 0 =>
                  /\ Position(<<k, "assert">>) # 0
                  /\ Position(<<k, "assert">>) < Position(<<k, step>>)
    /\ \A k \in 1..Len(backward_samples) : EndsWithEos(nbest[k].hypo)
    /\ Cardinality({c \in 1..Len(gen_calls) : gen_calls[c].model = "backward_model"})
          <= Cardinality({k \in 1..Len(nbest) :
                            Processed(k) /\ EndsWithEos(nbest[k].hypo)})

\* C10: at batch assembly there is one forward and one backward sample per
\* example, in input order and with the example's identifier; the backward
\* sample's source is the forward sample's target, less its last token
\* exactly when append_eos_to_source is false; and whenever an example's
\* reward has been computed the scorer holds that example's pair alone.
C10_OneSamplePairPerExample ==
    /\ pc \in {"forward_criterion", "backward_criterion", "done"} =>
          /\ Len(forward_samples) = Len(sample.id)
          /\ Len(backward_samples) = Len(sample.id)
          /\ \A k \in 1..Len(sample.id) :
                /\ forward_samples[k].id = sample.id[k]
                /\ backward_samples[k].id = sample.id[k]
                /\ forward_samples[k].source = StripPad(sample.src_tokens[k], PAD)
                /\ forward_samples[k].target = nbest[k].hypo
                /\ backward_samples[k].source =
                      (IF args.append_eos_to_source
                       THEN forward_samples[k].target
                       ELSE ButLast(forward_samples[k].target))
    /\ pc = "assert" =>
          /\ Len(scorer) = 1
          /\ scorer[1][1] = backward_samples[i].target
          /\ backward_samples[i].id = sample.id[i]

C10_Witness ==
    /\ pc = "forward_criterion"
    /\ Len(forward_samples) = 2
    /\ forward_samples[1].id # forward_samples[2].id
    /\ forward_samples[1].source # forward_samples[2].source
    /\ ~args.append_eos_to_source
    /\ Len(scorer) = 1

====
